---- MODULE Spec2Model ----
(***************************************************************************)
(* IntegrationUtils.wait_for_repo_status_paused                            *)
(* (src/integration_utils.py): a bounded polling loop that fetches the     *)
(* agent configuration of an integration until a named repository item is  *)
(* PAUSED, the deadline passes, or the response cannot be evaluated.       *)
(*                                                                         *)
(* Time is counted in milliseconds since start_time (line 97).  The clock  *)
(* is read at the loop test (line 100) and advances while the coroutine is *)
(* suspended: in the awaited fetch (line 102) and in asyncio.sleep (line   *)
(* 121).  Straight-line code between two suspension points takes no time.  *)
(***************************************************************************)
EXTENDS Integers, Sequences, FiniteSets

(* ---------------- bounds of the model ---------------- *)

\* largest timeout_ms a caller passes (the smallest is -1)
MaxTimeout == 3
\* largest interval_ms a caller passes (the smallest is 1)
MaxInterval == 2
\* longest time one fetch takes
MaxLatency == 2
\* longest time asyncio.sleep oversleeps
MaxJitter == 1
\* longest items list of a configuration entry
MaxItems == 2
\* timeouts in real milliseconds go up to 100 * MaxMessageSteps
MaxMessageSteps == 15

\* latest time, in ms, at which the second of two concurrent waits is called
MaxStartGap == 2
\* largest timeout_ms of two concurrent waits
MaxPairTimeout == 2
\* most Playwright processes one ApiUtils instance starts
MaxStarts == 2
\* most init() / start_session() calls made on one ApiUtils instance
MaxInitCalls == 3
\* most get/post/put/delete calls made on one ApiUtils instance
MaxRequests == 3

\* response.status >= 400 (src/api_utils.py line 332)
ErrorStatus == 400

\* interval_ms: int = 1000 (line 75)
DefaultIntervalMs == 1000

(* ---------------- arguments of the call ---------------- *)

\* the integration ids and repository names that occur: the caller asks for
\* one of each, and the fetched data may hold both
WorkspaceIds == {123, 25252}
IntegrationIds == {456, 789}
RepoNames == {"org/repo", "other/repo"}

Timeouts == (0 - 1)..MaxTimeout
Intervals == 1..MaxInterval

(* ---------------- the fetched data ---------------- *)

Statuses == {"PAUSED", "DISCOVERED"}

\* One element of an "items" list.  isRecord = FALSE is an element that is
\* not a dict (item.get raises AttributeError); hasStatus = FALSE is a dict
\* without a "status" key (item['status'] raises KeyError).
Item(n, s) == [isRecord |-> TRUE, name |-> n, hasStatus |-> TRUE, status |-> s]
ItemNoStatus(n) == [isRecord |-> TRUE, name |-> n, hasStatus |-> FALSE, status |-> ""]
NonRecord == [isRecord |-> FALSE, name |-> "", hasStatus |-> FALSE, status |-> ""]

Items ==
    {Item(n, s) : n \in RepoNames, s \in Statuses}
        \cup {ItemNoStatus(n) : n \in RepoNames}
        \cup {NonRecord}

\* the sequences over S of length at most n
RECURSIVE SeqsUpTo(_, _)
SeqsUpTo(S, n) ==
    IF n = 0 THEN {<<>>}
    ELSE LET shorter == SeqsUpTo(S, n - 1)
         IN  shorter \cup {Append(s, x) : s \in {t \in shorter : Len(t) = n - 1}, x \in S}

ItemLists == SeqsUpTo(Items, MaxItems)

\* One entry of the "configuration" list.  itemsKind says what
\* config.get("items") is: "absent" (None), "notlist" (a value that is not a
\* list) or "list".
Config(id, kind, its) == [integrationId |-> id, itemsKind |-> kind, items |-> its]

Configs ==
    {Config(id, "list", its) : id \in IntegrationIds, its \in ItemLists}
        \cup {Config(id, k, <<>>) : id \in IntegrationIds, k \in {"absent", "notlist"}}

\* the entries that stand before or after another entry in a two-entry list
NeighbourConfigs == {Config(id, "absent", <<>>) : id \in IntegrationIds}

ConfigLists ==
    {<<>>}
        \cup {<<c>> : c \in Configs}
        \cup {<<n, c>> : n \in NeighbourConfigs, c \in Configs}
        \cup {<<c, n>> : c \in Configs, n \in NeighbourConfigs}

\* What one fetch returns: a dict with or without a "configuration" key.
Responses ==
    {[hasConfiguration |-> TRUE, configuration |-> cl] : cl \in ConfigLists}
        \cup {[hasConfiguration |-> FALSE, configuration |-> <<>>]}

(* ---------------- state ---------------- *)

VARIABLES
    workspace_id,     \* argument of the call (line 71)
    integration_id,   \* argument of the call (line 72)
    repository_name,  \* argument of the call (line 73)
    timeout_ms,       \* argument of the call (line 74)
    interval_ms,      \* argument of the call (line 75)
    pc,               \* where the coroutine stands: "loop" at the while test
                      \* (line 100), "fetch" awaiting the fetch (line 102),
                      \* "sleep" awaiting asyncio.sleep (line 121), "done"
                      \* after the return or the raise
    elapsed,          \* (time.time() - start_time) * 1000 (lines 97, 100)
    response,         \* {} or {r}: the response under evaluation in this
                      \* cycle (line 102)
    outcome,          \* "running", "returned" (line 119), or the exception
                      \* raised
    result,           \* {} or {item}: the value returned (line 119)
    fetches,          \* number of fetch calls made (line 102)
    sleeps,           \* number of asyncio.sleep calls made (line 121)
    fetch_errors,     \* number of fetch calls that raised (line 102)
    calls,            \* the calls made on bito_api so far, as a set (line 102)
    message           \* {} or {m}: what the TimeoutError says (line 123)

vars == <<workspace_id, integration_id, repository_name, timeout_ms, interval_ms, pc,
          elapsed, response, outcome, result, fetches, sleeps, fetch_errors, calls,
          message>>

Outcomes == {"running", "returned", "ValueError", "TimeoutError",
             "TransportError", "AttributeError", "KeyError"}

TypeOK ==
    /\ workspace_id \in WorkspaceIds
    /\ integration_id \in IntegrationIds
    /\ repository_name \in RepoNames
    /\ timeout_ms \in Timeouts
    /\ interval_ms \in Intervals
    /\ pc \in {"loop", "fetch", "sleep", "done"}
    /\ elapsed \in Nat
    /\ response \subseteq Responses /\ Cardinality(response) <= 1
    /\ outcome \in Outcomes
    /\ result \subseteq Items /\ Cardinality(result) <= 1
    /\ fetches \in Nat /\ sleeps \in Nat /\ fetch_errors \in Nat
    /\ calls \subseteq [method : {"get_all_agent_configuration"},
                        workspace_id : WorkspaceIds \cup IntegrationIds,
                        integration_id : WorkspaceIds \cup IntegrationIds]
    /\ message \subseteq [repository_name : RepoNames, status : Statuses, seconds : Int]

(* ---------------- ApiUtils (src/api_utils.py): state ---------------- *)

\* One task drives the lifecycle of an ApiUtils instance (init /
\* start_session, cleanup_resources / end_session) and is suspended at the
\* awaits of lines 91, 92, 114 and 118; request calls (get, post, put,
\* delete) may come from any task at any time.  Playwright processes and
\* request contexts are numbered in the order they are started; None is 0.
VARIABLES
    playwright,    \* self.playwright: None or the handle of a process (lines 51, 91, 119)
    context,       \* self.context: None or the handle of a request context (lines 52, 92, 115)
    initialized,   \* self._initialized (lines 53, 100, 121)
    api_pc,        \* where the lifecycle task is suspended
    api_call,      \* the lifecycle call in progress: "none", "init", "cleanup_resources"
    api_last,      \* the last lifecycle call that ended and how it ended
    processes,     \* the Playwright processes started and not stopped
    contexts,      \* the request contexts created and not disposed
    started,       \* number of Playwright processes started so far
    init_calls,    \* number of init() / start_session() calls made so far
    requests,      \* number of get/post/put/delete calls made so far
    dispatched,    \* number of requests handed to the context
    last_request   \* {} or {the last get/post/put/delete call and how it ended}

apiVars == <<playwright, context, initialized, api_pc, api_call, api_last, processes,
             contexts, started, init_calls, requests, dispatched, last_request>>

None == 0

Methods == {"get", "post", "put", "delete"}

Handles == 1..MaxStarts

LastCalls ==
    [call : {"none", "init", "cleanup_resources"},
     outcome : {"none", "returned", "RuntimeError", "Error"}]

ApiTypeOK ==
    /\ playwright \in {None} \cup Handles
    /\ context \in {None} \cup Handles
    /\ initialized \in BOOLEAN
    /\ api_pc \in {"idle", "init_start", "init_new_context", "cleanup_dispose",
                   "cleanup_stop"}
    /\ api_call \in {"none", "init", "cleanup_resources"}
    /\ api_last \in LastCalls
    /\ processes \subseteq Handles
    /\ contexts \subseteq Handles
    /\ started \in 0..MaxStarts
    /\ init_calls \in 0..MaxInitCalls
    /\ requests \in 0..MaxRequests
    /\ dispatched \in 0..MaxRequests
    /\ last_request \subseteq [method : Methods,
                               outcome : {"dispatched", "RuntimeError", "AttributeError"},
                               context : {None} \cup Handles,
                               after : LastCalls]

\* ApiUtils.__init__ (lines 41-53)
ApiUtilsInit ==
    /\ playwright = None
    /\ context = None
    /\ initialized = FALSE
    /\ api_pc = "idle"
    /\ api_call = "none"
    /\ api_last = [call |-> "none", outcome |-> "none"]
    /\ processes = {}
    /\ contexts = {}
    /\ started = 0
    /\ init_calls = 0
    /\ requests = 0
    /\ dispatched = 0
    /\ last_request = {}

(* -------- concurrent calls of the wait on one instance: state -------- *)

\* Two calls of wait_for_repo_status_paused run as tasks of one event loop
\* on the same IntegrationUtils instance, with the same arguments.  The
\* instance holds bito_api and logger only (lines 66-67); start_time and
\* everything the loop computes are locals of each call.  The collaborator
\* answers the k-th fetch of every call with the k-th entry of one script.
VARIABLES
    now,            \* time.time(), in ms
    script,         \* what the collaborator does on the 1st, 2nd, ... fetch of a call
    start_time,     \* per call: start_time (line 97)
    wait_pc,        \* per call: "start", "loop", "fetch", "sleep", "done"
    due,            \* per call: when the call is made or the pending await completes
    wait_fetches,   \* per call: number of fetch calls made (line 102)
    wait_outcome,   \* per call: "running", "returned" or the exception raised
    wait_result     \* per call: {} or {the item returned} (line 119)

pairVars == <<now, script, start_time, wait_pc, due, wait_fetches, wait_outcome,
              wait_result>>

Invocations == {1, 2}

\* no call of the pair is made
PairNotCalled ==
    /\ now = 0
    /\ script = <<>>
    /\ start_time = [i \in Invocations |-> 0]
    /\ wait_pc = [i \in Invocations |-> "done"]
    /\ due = [i \in Invocations |-> 0]
    /\ wait_fetches = [i \in Invocations |-> 0]
    /\ wait_outcome = [i \in Invocations |-> "running"]
    /\ wait_result = [i \in Invocations |-> {}]

(* ---------------- ApiUtils.parse_response: state ---------------- *)

VARIABLES
    api_response,   \* the response argument of parse_response (line 309)
    parsed          \* {} or {how the call ended}

parseVars == <<api_response, parsed>>

\* status codes on both sides of the test of line 332
StatusCodes == {200, 204, 399, 400, 404, 500}

\* values of the content-type header; "" is the default of line 337
ContentTypes == {"", "text/plain", "application/json", "application/json; charset=utf-8"}

\* response is None
NoneResponse ==
    [isNone |-> TRUE, hasStatus |-> FALSE, status |-> 200, hasText |-> FALSE,
     hasHeaders |-> FALSE, contentType |-> "", jsonOk |-> FALSE]

\* a response object: the attributes it has (hasattr of lines 332, 333 and
\* 337), its status, its content-type header, and whether its body is JSON
ApiResponses ==
    {NoneResponse} \cup
    [isNone : {FALSE}, hasStatus : BOOLEAN, status : StatusCodes, hasText : BOOLEAN,
     hasHeaders : BOOLEAN, contentType : ContentTypes, jsonOk : BOOLEAN]

\* parse_response is not called
ParseNotCalled ==
    /\ api_response = NoneResponse
    /\ parsed = {}

(* ---------------- one cycle's evaluation (lines 103-121) ---------------- *)

Min(S) == CHOOSE x \in S : \A y \in S : x <= y

\* response.get("configuration", [])
ConfigListOf(r) == IF r.hasConfiguration THEN r.configuration ELSE <<>>

\* FindConfig taking the first entry whatever its integrationId
FindConfigAnyIntegration(config_list) ==
    IF config_list = <<>> THEN {} ELSE {config_list[1]}

\* next((c for c in config_list if c.get("integrationId") == integration_id), None)
\* as {} for None, {c} otherwise
FindConfig(config_list) ==
    LET I == {i \in DOMAIN config_list : config_list[i].integrationId = integration_id}
    IN  IF I = {} THEN {} ELSE {config_list[Min(I)]}

\* not config or not isinstance(config.get("items"), list)
InvalidConfig(config) ==
    config = {} \/ \E c \in config : c.itemsKind # "list"

Max(S) == CHOOSE x \in S : \A y \in S : y <= x

\* MatchIndex stopping at the last item of that name instead of the first
MatchIndexLast(its) ==
    LET I == {i \in DOMAIN its : its[i].isRecord /\ its[i].name = repository_name}
    IN  IF I = {} THEN 0 ELSE Max(I)

\* MatchIndex without the comparison of the name
MatchIndexAnyName(its) ==
    LET I == {i \in DOMAIN its : its[i].isRecord}
    IN  IF I = {} THEN 0 ELSE Min(I)

\* MatchIndex preferring an item of that name that is already PAUSED
MatchIndexPreferPaused(its) ==
    LET I == {i \in DOMAIN its : its[i].isRecord /\ its[i].name = repository_name}
        P == {i \in I : its[i].hasStatus /\ its[i].status = "PAUSED"}
    IN  IF I = {} THEN 0 ELSE IF P = {} THEN Min(I) ELSE Min(P)

\* index of the item next(...) of line 110 stops at, 0 when it runs off the end
MatchIndex(its) ==
    LET I == {i \in DOMAIN its : its[i].isRecord /\ its[i].name = repository_name}
    IN  IF I = {} THEN 0 ELSE Min(I)

\* the generator of line 110 calls item.get on every element up to the match
GetRaises(its) ==
    \E j \in DOMAIN its :
        /\ ~its[j].isRecord
        /\ (MatchIndex(its) = 0 \/ j < MatchIndex(its))

\* StatusReached comparing with another status
StatusReachedDiscovered(item) == item.status = "DISCOVERED"

\* StatusReached accepting every status
StatusReachedAny(item) == item.status \in Statuses

\* matching_item["status"] == "PAUSED"
StatusReached(item) == item.status = "PAUSED"

\* EvaluateItems waiting for a repository that is not in the list
EvaluateItemsWaitForRepository(its) ==
    LET m == MatchIndex(its)
    IN  IF GetRaises(its) THEN [kind |-> "AttributeError", item |-> {}]
        ELSE IF m = 0 THEN [kind |-> "sleep", item |-> {}]
        ELSE IF ~its[m].hasStatus THEN [kind |-> "KeyError", item |-> {}]
        ELSE IF StatusReached(its[m]) THEN [kind |-> "return", item |-> {its[m]}]
        ELSE [kind |-> "sleep", item |-> {}]

\* Lines 110-121 on the items list of the integration's entry: what the
\* cycle does ("return", "sleep" or the exception it raises) and the item it
\* returns.
EvaluateItems(its) ==
    LET m == MatchIndex(its)
    IN  IF GetRaises(its) THEN [kind |-> "AttributeError", item |-> {}]
        ELSE IF m = 0 THEN [kind |-> "ValueError", item |-> {}]
        ELSE IF ~its[m].hasStatus THEN [kind |-> "KeyError", item |-> {}]
        ELSE IF StatusReached(its[m]) THEN [kind |-> "return", item |-> {its[m]}]
        ELSE [kind |-> "sleep", item |-> {}]

\* Evaluate retrying on an invalid configuration instead of raising
EvaluateRetryInvalid(r) ==
    LET config == FindConfig(ConfigListOf(r))
    IN  IF InvalidConfig(config) THEN [kind |-> "sleep", item |-> {}]
        ELSE EvaluateItems((CHOOSE c \in config : TRUE).items)

\* Lines 103-121 on one response.
Evaluate(r) ==
    LET config == FindConfig(ConfigListOf(r))
    IN  IF InvalidConfig(config) THEN [kind |-> "ValueError", item |-> {}]
        ELSE EvaluateItems((CHOOSE c \in config : TRUE).items)

(* ---------------- actions ---------------- *)

\* the call: start_time = time.time() (line 97)
Init ==
    /\ workspace_id \in WorkspaceIds
    /\ integration_id \in IntegrationIds
    /\ repository_name \in RepoNames
    /\ timeout_ms \in Timeouts
    /\ interval_ms \in Intervals
    /\ pc = "loop"
    /\ elapsed = 0
    /\ response = {}
    /\ outcome = "running"
    /\ result = {}
    /\ fetches = 0
    /\ sleeps = 0
    /\ fetch_errors = 0
    /\ calls = {}
    /\ message = {}
    /\ ApiUtilsInit
    /\ PairNotCalled
    /\ ParseNotCalled

\* FetchCall with the two identifiers in the wrong order
FetchCallSwapped ==
    [method |-> "get_all_agent_configuration",
     workspace_id |-> integration_id,
     integration_id |-> workspace_id]

\* self.bito_api.get_all_agent_configuration(workspace_id, integration_id)
FetchCall ==
    [method |-> "get_all_agent_configuration",
     workspace_id |-> workspace_id,
     integration_id |-> integration_id]

\* what the TimeoutError of line 123 says: the repository, the status waited
\* for, and the timeout as {timeout_ms // 1000}s
TimeoutMessage ==
    [repository_name |-> repository_name,
     status |-> "PAUSED",
     seconds |-> timeout_ms \div 1000]

\* DeadlineOpen allowing one more interval after the deadline
DeadlineOpenGrace == elapsed < timeout_ms + interval_ms

\* DeadlineOpen not reading the clock
DeadlineOpenForever == elapsed >= 0

\* DeadlineOpen with <= for <
DeadlineOpenInclusive == elapsed <= timeout_ms

\* DeadlineOpen giving up when the next sleep would pass the deadline
DeadlineOpenEarly == elapsed + interval_ms < timeout_ms

\* the while test of line 100
DeadlineOpen == elapsed < timeout_ms

\* StartFetch of a loop that tests the deadline after the cycle, not before
\* it: the first fetch is made unconditionally
StartFetchTestedAfter ==
    /\ pc = "loop"
    /\ fetches = 0 \/ DeadlineOpen
    /\ pc' = "fetch"
    /\ fetches' = fetches + 1
    /\ calls' = calls \cup {FetchCall}
    /\ response' = {}
    /\ UNCHANGED <<workspace_id, integration_id, repository_name, timeout_ms, interval_ms,
                   message,
                   elapsed, outcome, result, sleeps, fetch_errors>>

\* line 100 true, lines 101-102: the fetch is called and awaited.  The
\* previous cycle's response is dead from here on: line 102 rebinds it
\* before anything reads it.
StartFetch ==
    /\ pc = "loop"
    /\ DeadlineOpen
    /\ pc' = "fetch"
    /\ fetches' = fetches + 1
    /\ calls' = calls \cup {FetchCall}
    /\ response' = {}
    /\ UNCHANGED <<workspace_id, integration_id, repository_name, timeout_ms, interval_ms,
                   message,
                   elapsed, outcome, result, sleeps, fetch_errors>>

\* line 100 false, line 123
RaiseTimeout ==
    /\ pc = "loop"
    /\ ~DeadlineOpen
    /\ pc' = "done"
    /\ outcome' = "TimeoutError"
    /\ message' = {TimeoutMessage}
    /\ UNCHANGED <<workspace_id, integration_id, repository_name, timeout_ms, interval_ms,
                   calls,
                   elapsed, response, result, fetches, sleeps, fetch_errors>>

\* FetchReturns recording the return or the exception and polling on
FetchReturnsKeepsPolling ==
    /\ pc = "fetch"
    /\ \E r \in Responses, d \in 0..MaxLatency :
        LET e == Evaluate(r)
        IN  /\ elapsed' = elapsed + d
            /\ response' = {r}
            /\ pc' = "sleep"
            /\ sleeps' = sleeps + 1
            /\ IF e.kind = "sleep"
               THEN UNCHANGED <<outcome, result>>
               ELSE /\ outcome' = (IF e.kind = "return" THEN "returned" ELSE e.kind)
                    /\ result' = e.item
    /\ UNCHANGED <<workspace_id, integration_id, repository_name, timeout_ms, interval_ms,
                   calls, message,
                   fetches, fetch_errors>>

\* FetchReturns validating the first response only: an invalid one on a
\* later cycle is slept on and fetched again
FetchReturnsValidatesFirstOnly ==
    /\ pc = "fetch"
    /\ \E r \in Responses, d \in 0..MaxLatency :
        LET e == Evaluate(r)
        IN  /\ elapsed' = elapsed + d
            /\ response' = {r}
            /\ IF e.kind = "sleep" \/ (e.kind = "ValueError" /\ fetches > 1)
               THEN /\ pc' = "sleep"
                    /\ sleeps' = sleeps + 1
                    /\ UNCHANGED <<outcome, result>>
               ELSE /\ pc' = "done"
                    /\ outcome' = (IF e.kind = "return" THEN "returned" ELSE e.kind)
                    /\ result' = e.item
                    /\ UNCHANGED sleeps
    /\ UNCHANGED <<workspace_id, integration_id, repository_name, timeout_ms, interval_ms,
                   calls, message,
                   fetches, fetch_errors>>

\* FetchReturns testing the deadline again once the fetch is back
FetchReturnsTestsDeadline ==
    /\ pc = "fetch"
    /\ \E r \in Responses, d \in 0..MaxLatency :
        LET e == Evaluate(r)
        IN  /\ elapsed' = elapsed + d
            /\ response' = {r}
            /\ IF elapsed + d >= timeout_ms
               THEN /\ pc' = "done"
                    /\ outcome' = "TimeoutError"
                    /\ UNCHANGED <<result, sleeps>>
               ELSE IF e.kind = "sleep"
               THEN /\ pc' = "sleep"
                    /\ sleeps' = sleeps + 1
                    /\ UNCHANGED <<outcome, result>>
               ELSE /\ pc' = "done"
                    /\ outcome' = (IF e.kind = "return" THEN "returned" ELSE e.kind)
                    /\ result' = e.item
                    /\ UNCHANGED sleeps
    /\ UNCHANGED <<workspace_id, integration_id, repository_name, timeout_ms, interval_ms,
                   calls, message,
                   fetches, fetch_errors>>

\* the awaited fetch returns r after d ms; lines 103-121 up to the return,
\* the raise or the call of asyncio.sleep
FetchReturns ==
    /\ pc = "fetch"
    /\ \E r \in Responses, d \in 0..MaxLatency :
        LET e == Evaluate(r)
        IN  /\ elapsed' = elapsed + d
            /\ response' = {r}
            /\ IF e.kind = "sleep"
               THEN /\ pc' = "sleep"
                    /\ sleeps' = sleeps + 1
                    /\ UNCHANGED <<outcome, result>>
               ELSE /\ pc' = "done"
                    /\ outcome' = (IF e.kind = "return" THEN "returned" ELSE e.kind)
                    /\ result' = e.item
                    /\ UNCHANGED sleeps
    /\ UNCHANGED <<workspace_id, integration_id, repository_name, timeout_ms, interval_ms,
                   calls, message,
                   fetches, fetch_errors>>

\* FetchRaises with the exception caught and the cycle retried
FetchRaisesRetried ==
    /\ pc = "fetch"
    /\ \E d \in 0..MaxLatency : elapsed' = elapsed + d
    /\ pc' = "sleep"
    /\ sleeps' = sleeps + 1
    /\ fetch_errors' = fetch_errors + 1
    /\ UNCHANGED <<workspace_id, integration_id, repository_name, timeout_ms, interval_ms,
                   calls, message,
                   response, outcome, result, fetches>>

\* the awaited fetch raises after d ms; nothing in the loop catches it
FetchRaises ==
    /\ pc = "fetch"
    /\ \E d \in 0..MaxLatency : elapsed' = elapsed + d
    /\ pc' = "done"
    /\ outcome' = "TransportError"
    /\ fetch_errors' = fetch_errors + 1
    /\ UNCHANGED <<workspace_id, integration_id, repository_name, timeout_ms, interval_ms,
                   calls, message,
                   response, result, fetches, sleeps>>

\* SleepReturns sleeping interval_ms microseconds: no whole millisecond passes
SleepReturnsShort ==
    /\ pc = "sleep"
    /\ \E j \in 0..MaxJitter : elapsed' = elapsed + j
    /\ pc' = "loop"
    /\ UNCHANGED <<workspace_id, integration_id, repository_name, timeout_ms, interval_ms,
                   calls, message,
                   response, outcome, result, fetches, sleeps, fetch_errors>>

\* SleepReturns for a sleep that is not awaited: no time passes
SleepReturnsNotAwaited ==
    /\ pc = "sleep"
    /\ elapsed' = elapsed
    /\ pc' = "loop"
    /\ UNCHANGED <<workspace_id, integration_id, repository_name, timeout_ms, interval_ms,
                   calls, message,
                   response, outcome, result, fetches, sleeps, fetch_errors>>

\* asyncio.sleep(interval_ms / 1000) returns (line 121), back to line 100
SleepReturns ==
    /\ pc = "sleep"
    /\ \E j \in 0..MaxJitter : elapsed' = elapsed + interval_ms + j
    /\ pc' = "loop"
    /\ UNCHANGED <<workspace_id, integration_id, repository_name, timeout_ms, interval_ms,
                   calls, message,
                   response, outcome, result, fetches, sleeps, fetch_errors>>

\* the steps of the wait; nothing else moves meanwhile
Next ==
    \/ StartFetch /\ UNCHANGED <<apiVars, pairVars, parseVars>>
    \/ RaiseTimeout /\ UNCHANGED <<apiVars, pairVars, parseVars>>
    \/ FetchReturns /\ UNCHANGED <<apiVars, pairVars, parseVars>>
    \/ FetchRaises /\ UNCHANGED <<apiVars, pairVars, parseVars>>
    \/ SleepReturns /\ UNCHANGED <<apiVars, pairVars, parseVars>>

Spec == Init /\ [][Next]_vars

\* The same wait on a running event loop: a step that can be taken is
\* taken.  The awaited fetch returns or raises, the timer of asyncio.sleep
\* fires, and the straight-line code between two awaits runs.
SpecLive == Init /\ [][Next]_vars /\ WF_vars(Next)

(* ------------- the same wait, called with timeouts in real ms ------------- *)

\* timeouts of 0, 100, 200, ... ms, among them 300 ms and 1500 ms
MessageTimeouts == {100 * n : n \in 0..MaxMessageSteps}

\* the call with such a timeout and the default interval_ms of the signature
InitMessage ==
    /\ workspace_id \in WorkspaceIds
    /\ integration_id \in IntegrationIds
    /\ repository_name \in RepoNames
    /\ timeout_ms \in MessageTimeouts
    /\ interval_ms = DefaultIntervalMs
    /\ pc = "loop"
    /\ elapsed = 0
    /\ response = {}
    /\ outcome = "running"
    /\ result = {}
    /\ fetches = 0
    /\ sleeps = 0
    /\ fetch_errors = 0
    /\ calls = {}
    /\ message = {}
    /\ ApiUtilsInit
    /\ PairNotCalled
    /\ ParseNotCalled

SpecMessage == InitMessage /\ [][Next]_vars

(* ---------------- ApiUtils (src/api_utils.py): actions ---------------- *)

\* _ensure_initialized testing the flag only
EnsureInitializedFlagOnly == ~initialized

\* _ensure_initialized (lines 155-163) raises RuntimeError
EnsureInitializedRaises == ~initialized \/ context = None

\* cleanup_resources reaches line 121 and the call in progress ends: init
\* re-raises as RuntimeError (line 104), cleanup_resources returns
CleanupEnds(call) ==
    /\ initialized' = FALSE
    /\ api_pc' = "idle"
    /\ api_call' = "none"
    /\ api_last' = [call |-> call,
                    outcome |-> IF call = "init" THEN "RuntimeError" ELSE "returned"]

\* cleanup_resources from its first line, within the given call: await
\* dispose() if there is a context (line 113), else await stop() if there
\* is a process (line 117), else line 121
CleanupBegins(call) ==
    IF context # None
      THEN /\ api_pc' = "cleanup_dispose"
           /\ api_call' = call
           /\ UNCHANGED <<initialized, api_last>>
      ELSE IF playwright # None
             THEN /\ api_pc' = "cleanup_stop"
                  /\ api_call' = call
                  /\ UNCHANGED <<initialized, api_last>>
             ELSE CleanupEnds(call)

\* InitCalled without the early return of lines 87-88
InitCalledAlwaysStarts ==
    /\ api_pc = "idle"
    /\ init_calls < MaxInitCalls
    /\ init_calls' = init_calls + 1
    /\ started < MaxStarts
    /\ api_pc' = "init_start"
    /\ api_call' = "init"
    /\ UNCHANGED <<playwright, context, initialized, api_last, processes, contexts,
                   started, requests, dispatched, last_request>>

\* init() / start_session() / __aenter__ is called (lines 87-91, 134)
InitCalled ==
    /\ api_pc = "idle"
    /\ init_calls < MaxInitCalls
    /\ init_calls' = init_calls + 1
    /\ IF initialized
         THEN /\ api_last' = [call |-> "init", outcome |-> "returned"]
              /\ UNCHANGED <<api_pc, api_call>>
         ELSE /\ started < MaxStarts
              /\ api_pc' = "init_start"
              /\ api_call' = "init"
              /\ UNCHANGED api_last
    /\ UNCHANGED <<playwright, context, initialized, processes, contexts, started,
                   requests, dispatched, last_request>>

\* async_playwright().start() returns a new process (line 91)
PlaywrightStarts ==
    /\ api_pc = "init_start"
    /\ UNCHANGED init_calls
    /\ started' = started + 1
    /\ playwright' = started + 1
    /\ processes' = processes \cup {started + 1}
    /\ api_pc' = "init_new_context"
    /\ UNCHANGED <<context, initialized, api_call, api_last, contexts, requests,
                   dispatched, last_request>>

\* async_playwright().start() raises: the except branch (lines 101-104)
PlaywrightStartRaises ==
    /\ api_pc = "init_start"
    /\ UNCHANGED init_calls
    /\ CleanupBegins("init")
    /\ UNCHANGED <<playwright, context, processes, contexts, started, requests,
                   dispatched, last_request>>

\* request.new_context(...) returns a context of the process (lines 92-100)
NewContextReturns ==
    /\ api_pc = "init_new_context"
    /\ UNCHANGED init_calls
    /\ context' = playwright
    /\ contexts' = contexts \cup {playwright}
    /\ initialized' = TRUE
    /\ api_pc' = "idle"
    /\ api_call' = "none"
    /\ api_last' = [call |-> "init", outcome |-> "returned"]
    /\ UNCHANGED <<playwright, processes, started, requests, dispatched, last_request>>

\* request.new_context(...) raises: the except branch (lines 101-104)
NewContextRaises ==
    /\ api_pc = "init_new_context"
    /\ UNCHANGED init_calls
    /\ CleanupBegins("init")
    /\ UNCHANGED <<playwright, context, processes, contexts, started, requests,
                   dispatched, last_request>>

\* cleanup_resources() / end_session() / __aexit__ is called (lines 106-113, 149)
CleanupResourcesCalled ==
    /\ api_pc = "idle"
    /\ UNCHANGED init_calls
    /\ CleanupBegins("cleanup_resources")
    /\ UNCHANGED <<playwright, context, processes, contexts, started, requests,
                   dispatched, last_request>>

\* context.dispose() returns (lines 114-117)
DisposeReturns ==
    /\ api_pc = "cleanup_dispose"
    /\ UNCHANGED init_calls
    /\ contexts' = contexts \ {context}
    /\ context' = None
    /\ IF playwright # None
         THEN /\ api_pc' = "cleanup_stop"
              /\ UNCHANGED <<initialized, api_call, api_last>>
         ELSE CleanupEnds(api_call)
    /\ UNCHANGED <<playwright, processes, started, requests, dispatched, last_request>>

\* context.dispose() raises: the exception leaves cleanup_resources, and
\* init when the cleanup was its except branch
DisposeRaises ==
    /\ api_pc = "cleanup_dispose"
    /\ UNCHANGED init_calls
    /\ api_pc' = "idle"
    /\ api_call' = "none"
    /\ api_last' = [call |-> api_call, outcome |-> "Error"]
    /\ UNCHANGED <<playwright, context, initialized, processes, contexts, started,
                   requests, dispatched, last_request>>

\* playwright.stop() returns (lines 118-121)
StopReturns ==
    /\ api_pc = "cleanup_stop"
    /\ UNCHANGED init_calls
    /\ processes' = processes \ {playwright}
    /\ playwright' = None
    /\ CleanupEnds(api_call)
    /\ UNCHANGED <<context, contexts, started, requests, dispatched, last_request>>

\* playwright.stop() raises: the exception leaves cleanup_resources
StopRaises ==
    /\ api_pc = "cleanup_stop"
    /\ UNCHANGED init_calls
    /\ api_pc' = "idle"
    /\ api_call' = "none"
    /\ api_last' = [call |-> api_call, outcome |-> "Error"]
    /\ UNCHANGED <<playwright, context, initialized, processes, contexts, started,
                   requests, dispatched, last_request>>

\* get, post, put, delete (lines 177-307): _ensure_initialized(), then the
\* request is handed to self.context; on None that is an AttributeError
Request(method) ==
    /\ requests < MaxRequests
    /\ UNCHANGED init_calls
    /\ requests' = requests + 1
    /\ IF EnsureInitializedRaises
         THEN /\ last_request' = {[method |-> method, outcome |-> "RuntimeError",
                                   context |-> None, after |-> api_last]}
              /\ UNCHANGED dispatched
         ELSE IF context = None
                THEN /\ last_request' = {[method |-> method, outcome |-> "AttributeError",
                                          context |-> None, after |-> api_last]}
                     /\ UNCHANGED dispatched
                ELSE /\ last_request' = {[method |-> method, outcome |-> "dispatched",
                                          context |-> context, after |-> api_last]}
                     /\ dispatched' = dispatched + 1
    /\ UNCHANGED <<playwright, context, initialized, api_pc, api_call, api_last,
                   processes, contexts, started>>

\* the wait is not running while the ApiUtils instance is exercised
InitApi ==
    /\ workspace_id = 123
    /\ integration_id = 456
    /\ repository_name = "org/repo"
    /\ timeout_ms = 0
    /\ interval_ms = 1
    /\ pc = "loop"
    /\ elapsed = 0
    /\ response = {}
    /\ outcome = "running"
    /\ result = {}
    /\ fetches = 0
    /\ sleeps = 0
    /\ fetch_errors = 0
    /\ calls = {}
    /\ message = {}
    /\ ApiUtilsInit
    /\ PairNotCalled
    /\ ParseNotCalled

NextApi ==
    \/ InitCalled /\ UNCHANGED <<vars, pairVars, parseVars>>
    \/ PlaywrightStarts /\ UNCHANGED <<vars, pairVars, parseVars>>
    \/ PlaywrightStartRaises /\ UNCHANGED <<vars, pairVars, parseVars>>
    \/ NewContextReturns /\ UNCHANGED <<vars, pairVars, parseVars>>
    \/ NewContextRaises /\ UNCHANGED <<vars, pairVars, parseVars>>
    \/ CleanupResourcesCalled /\ UNCHANGED <<vars, pairVars, parseVars>>
    \/ DisposeReturns /\ UNCHANGED <<vars, pairVars, parseVars>>
    \/ DisposeRaises /\ UNCHANGED <<vars, pairVars, parseVars>>
    \/ StopReturns /\ UNCHANGED <<vars, pairVars, parseVars>>
    \/ StopRaises /\ UNCHANGED <<vars, pairVars, parseVars>>
    \/ \E method \in Methods : Request(method) /\ UNCHANGED <<vars, pairVars, parseVars>>

SpecApi == InitApi /\ [][NextApi]_<<vars, apiVars, pairVars>>

(* -------- concurrent calls of the wait on one instance: actions -------- *)

\* responses of the collaborator for the arguments of the calls
PausedResponse ==
    [hasConfiguration |-> TRUE,
     configuration |-> <<Config(integration_id, "list",
                                <<Item(repository_name, "PAUSED")>>)>>]

DiscoveredResponse ==
    [hasConfiguration |-> TRUE,
     configuration |-> <<Config(integration_id, "list",
                                <<Item(repository_name, "DISCOVERED")>>)>>]

EmptyResponse == [hasConfiguration |-> FALSE, configuration |-> <<>>]

\* one fetch of the script: it raises or returns r, after d ms; the sleep
\* that follows it oversleeps by j ms
ScriptEntries ==
    [raises : BOOLEAN,
     r : {PausedResponse, DiscoveredResponse, EmptyResponse},
     d : 0..MaxLatency,
     j : 0..MaxJitter]

\* the call whose turn it is: nothing else is due earlier
IsNext(i) ==
    /\ wait_pc[i] # "done"
    /\ \A o \in Invocations : wait_pc[o] # "done" => due[i] <= due[o]

\* PairElapsed with start_time kept on the instance, written by every call
PairElapsedOnInstance(i) ==
    now - Max({start_time[o] : o \in {o \in Invocations : wait_pc[o] # "start"}})

\* PairElapsed with start_time kept on the instance, written by the first call
PairElapsedOfFirstCall(i) == now - start_time[1]

\* (time.time() - start_time) * 1000 of line 100, for call i
PairElapsed(i) == now - start_time[i]

\* the call is made: start_time = time.time() (line 97)
PairCall(i) ==
    /\ wait_pc[i] = "start"
    /\ IsNext(i)
    /\ now' = due[i]
    /\ start_time' = [start_time EXCEPT ![i] = due[i]]
    /\ wait_pc' = [wait_pc EXCEPT ![i] = "loop"]
    /\ UNCHANGED <<script, due, wait_fetches, wait_outcome, wait_result>>

\* line 100 true, lines 101-102: the fetch is called and awaited; the
\* collaborator extends its script when this is the first call to get there
PairStartFetch(i) ==
    /\ wait_pc[i] = "loop"
    /\ IsNext(i)
    /\ PairElapsed(i) < timeout_ms
    /\ \E e \in ScriptEntries :
          /\ IF wait_fetches[i] < Len(script)
               THEN e = script[wait_fetches[i] + 1] /\ UNCHANGED script
               ELSE script' = Append(script, e)
          /\ due' = [due EXCEPT ![i] = now + e.d]
    /\ wait_fetches' = [wait_fetches EXCEPT ![i] = @ + 1]
    /\ wait_pc' = [wait_pc EXCEPT ![i] = "fetch"]
    /\ UNCHANGED <<now, start_time, wait_outcome, wait_result>>

\* line 100 false, line 123
PairRaiseTimeout(i) ==
    /\ wait_pc[i] = "loop"
    /\ IsNext(i)
    /\ ~(PairElapsed(i) < timeout_ms)
    /\ wait_pc' = [wait_pc EXCEPT ![i] = "done"]
    /\ wait_outcome' = [wait_outcome EXCEPT ![i] = "TimeoutError"]
    /\ UNCHANGED <<now, script, start_time, due, wait_fetches, wait_result>>

\* the awaited fetch returns; lines 103-121 up to the return, the raise or
\* the call of asyncio.sleep
PairFetchReturns(i) ==
    /\ wait_pc[i] = "fetch"
    /\ IsNext(i)
    /\ ~script[wait_fetches[i]].raises
    /\ now' = due[i]
    /\ LET s == script[wait_fetches[i]]
           e == Evaluate(s.r)
       IN  IF e.kind = "sleep"
             THEN /\ wait_pc' = [wait_pc EXCEPT ![i] = "sleep"]
                  /\ due' = [due EXCEPT ![i] = due[i] + interval_ms + s.j]
                  /\ UNCHANGED <<wait_outcome, wait_result>>
             ELSE /\ wait_pc' = [wait_pc EXCEPT ![i] = "done"]
                  /\ wait_outcome' = [wait_outcome EXCEPT
                          ![i] = IF e.kind = "return" THEN "returned" ELSE e.kind]
                  /\ wait_result' = [wait_result EXCEPT ![i] = e.item]
                  /\ UNCHANGED due
    /\ UNCHANGED <<script, start_time, wait_fetches>>

\* the awaited fetch raises; nothing in the loop catches it
PairFetchRaises(i) ==
    /\ wait_pc[i] = "fetch"
    /\ IsNext(i)
    /\ script[wait_fetches[i]].raises
    /\ now' = due[i]
    /\ wait_pc' = [wait_pc EXCEPT ![i] = "done"]
    /\ wait_outcome' = [wait_outcome EXCEPT ![i] = "TransportError"]
    /\ UNCHANGED <<script, start_time, due, wait_fetches, wait_result>>

\* asyncio.sleep(interval_ms / 1000) returns (line 121), back to line 100
PairSleepReturns(i) ==
    /\ wait_pc[i] = "sleep"
    /\ IsNext(i)
    /\ now' = due[i]
    /\ wait_pc' = [wait_pc EXCEPT ![i] = "loop"]
    /\ UNCHANGED <<script, start_time, due, wait_fetches, wait_outcome, wait_result>>

\* two calls with the same arguments, the second up to MaxStartGap ms
\* after the first
InitPair ==
    /\ workspace_id \in WorkspaceIds
    /\ integration_id \in IntegrationIds
    /\ repository_name \in RepoNames
    /\ timeout_ms \in 0..MaxPairTimeout
    /\ interval_ms \in Intervals
    /\ pc = "loop"
    /\ elapsed = 0
    /\ response = {}
    /\ outcome = "running"
    /\ result = {}
    /\ fetches = 0
    /\ sleeps = 0
    /\ fetch_errors = 0
    /\ calls = {}
    /\ message = {}
    /\ ApiUtilsInit
    /\ now = 0
    /\ script = <<>>
    /\ start_time = [i \in Invocations |-> 0]
    /\ wait_pc = [i \in Invocations |-> "start"]
    /\ \E g \in 0..MaxStartGap : due = [i \in Invocations |-> IF i = 1 THEN 0 ELSE g]
    /\ wait_fetches = [i \in Invocations |-> 0]
    /\ wait_outcome = [i \in Invocations |-> "running"]
    /\ wait_result = [i \in Invocations |-> {}]
    /\ ParseNotCalled

NextPair ==
    \/ \E i \in Invocations : PairCall(i) /\ UNCHANGED <<vars, apiVars, parseVars>>
    \/ \E i \in Invocations : PairStartFetch(i) /\ UNCHANGED <<vars, apiVars, parseVars>>
    \/ \E i \in Invocations : PairRaiseTimeout(i) /\ UNCHANGED <<vars, apiVars, parseVars>>
    \/ \E i \in Invocations : PairFetchReturns(i) /\ UNCHANGED <<vars, apiVars, parseVars>>
    \/ \E i \in Invocations : PairFetchRaises(i) /\ UNCHANGED <<vars, apiVars, parseVars>>
    \/ \E i \in Invocations : PairSleepReturns(i) /\ UNCHANGED <<vars, apiVars, parseVars>>

SpecPair == InitPair /\ [][NextPair]_<<vars, apiVars, pairVars>>

(* ---------------- ApiUtils.parse_response: actions ---------------- *)

\* "application/json" in content_type (line 339)
IsJson(content_type) ==
    content_type \in {"application/json", "application/json; charset=utf-8"}

\* the exceptions of the except clause of line 342
Caught == {"ValueError", "AttributeError", "JSONDecodeError"}

Returned(v) == [kind |-> "returned", value |-> v, exc |-> "none"]

Raised(e) == [kind |-> "raised", value |-> "none", exc |-> e]

\* the body of the try (lines 331-341): the status check, then json() or
\* text() by content type; text() on an object without it is an
\* AttributeError, json() on a body that is not JSON a JSONDecodeError
TryBody(resp) ==
    IF resp.hasStatus /\ resp.status >= ErrorStatus
      THEN Raised("ValueError")
      ELSE LET content_type == IF resp.hasHeaders THEN resp.contentType ELSE ""
           IN  IF IsJson(content_type)
                 THEN IF resp.jsonOk THEN Returned("json") ELSE Raised("JSONDecodeError")
                 ELSE IF resp.hasText THEN Returned("text") ELSE Raised("AttributeError")

\* parse_response (lines 309-345): None for no response (lines 326-328);
\* an exception of the try that the except clause names is logged and None
\* is returned (lines 342-345)
ParseResponse(resp) ==
    IF resp.isNone
      THEN Returned("None")
      ELSE LET b == TryBody(resp)
           IN  IF b.kind = "raised" /\ b.exc \in Caught THEN Returned("None") ELSE b

ParseResponseCalled ==
    /\ parsed = {}
    /\ parsed' = {ParseResponse(api_response)}
    /\ UNCHANGED api_response

InitParse ==
    /\ workspace_id = 123
    /\ integration_id = 456
    /\ repository_name = "org/repo"
    /\ timeout_ms = 0
    /\ interval_ms = 1
    /\ pc = "loop"
    /\ elapsed = 0
    /\ response = {}
    /\ outcome = "running"
    /\ result = {}
    /\ fetches = 0
    /\ sleeps = 0
    /\ fetch_errors = 0
    /\ calls = {}
    /\ message = {}
    /\ ApiUtilsInit
    /\ PairNotCalled
    /\ api_response \in ApiResponses
    /\ parsed = {}

NextParse == ParseResponseCalled /\ UNCHANGED <<vars, apiVars, pairVars>>

SpecParse == InitParse /\ [][NextParse]_<<vars, apiVars, pairVars, parseVars>>

(* ---------------- what a response says, read off the data ---------------- *)

\* the entry of the requested integration in r: the first one of the
\* configuration list that carries integration_id ({} when there is none)
IntegrationEntries(r) ==
    IF ~r.hasConfiguration THEN {}
    ELSE {r.configuration[i] : i \in
            {i \in DOMAIN r.configuration :
                /\ r.configuration[i].integrationId = integration_id
                /\ \A j \in 1..(i - 1) : r.configuration[j].integrationId # integration_id}}

\* the item of the requested repository in entry c: the first record of the
\* items list named repository_name, every element before it being a record
\* ({} when there is none)
RepositoryItems(c) ==
    IF c.itemsKind # "list" THEN {}
    ELSE {c.items[m] : m \in
            {m \in DOMAIN c.items :
                /\ c.items[m].isRecord
                /\ c.items[m].name = repository_name
                /\ \A k \in 1..(m - 1) :
                        c.items[k].isRecord /\ c.items[k].name # repository_name}}

\* the items list of c holds records only, none of them named repository_name
RepositoryAbsent(c) ==
    /\ c.itemsKind = "list"
    /\ \A k \in DOMAIN c.items : c.items[k].isRecord /\ c.items[k].name # repository_name

(* ---------------- claims ---------------- *)

\* C1: when the response of the first fetch holds the requested integration
\* and in it the repository's item with status PAUSED, the wait has returned
\* that item after that one fetch and without any sleep.
C1_FirstFetchAlreadyPaused ==
    \A r \in response : \A c \in IntegrationEntries(r) : \A it \in RepositoryItems(c) :
        (fetches = 1 /\ it.hasStatus /\ it.status = "PAUSED")
            => /\ pc = "done"
               /\ outcome = "returned"
               /\ result = {it}
               /\ sleeps = 0

C1_Witness ==
    /\ fetches = 1
    /\ outcome = "returned"
    /\ sleeps = 0
    /\ elapsed > 0
    /\ \E r \in response : \E c \in IntegrationEntries(r) : RepositoryItems(c) = result

\* C2 as stated: a wait that ends in TimeoutError has made timeout/interval
\* fetch calls, give or take one:
\* (fetches - 1) * interval <= timeout <= (fetches + 1) * interval.
C2_FetchCountIsTimeoutOverInterval ==
    outcome = "TimeoutError"
        => /\ (fetches - 1) * interval_ms <= timeout_ms
           /\ timeout_ms <= (fetches + 1) * interval_ms

\* C2 as amended: the number of fetch calls is bounded above by
\* timeout/interval + 1 at every moment of the wait (the k-th fetch starts no
\* earlier than (k - 1) * interval and before the deadline), and a wait that
\* ends in TimeoutError has slept after every fetch, has reached the
\* deadline, and has fetched at least once exactly when timeout > 0.
C2_FetchCountBounded ==
    /\ fetches > 0 => (fetches - 1) * interval_ms < timeout_ms
    /\ outcome = "TimeoutError"
        => /\ pc = "done"
           /\ elapsed >= timeout_ms
           /\ sleeps = fetches
           /\ (fetches > 0) <=> (timeout_ms > 0)

\* a timeout after fewer fetches than timeout/interval - 1
C2_Witness ==
    /\ outcome = "TimeoutError"
    /\ fetches > 0
    /\ (fetches + 1) * interval_ms < timeout_ms

\* C3: when the response of the first fetch holds the requested integration
\* with an items field that is absent or not a list, the wait has raised
\* ValueError after that one fetch and without any sleep, whatever the
\* timeout.
C3_BadItemsFailsFirstCycle ==
    \A r \in response : \A c \in IntegrationEntries(r) :
        (fetches = 1 /\ c.itemsKind # "list")
            => /\ pc = "done"
               /\ outcome = "ValueError"
               /\ sleeps = 0
               /\ result = {}

C3_Witness ==
    /\ fetches = 1
    /\ outcome = "ValueError"
    /\ sleeps = 0
    /\ timeout_ms = MaxTimeout
    /\ elapsed < timeout_ms
    /\ \E r \in response : \E c \in IntegrationEntries(r) : c.itemsKind = "notlist"

\* C4: when the items list of the requested integration holds no item named
\* repository_name, the wait has raised ValueError in that cycle, without
\* sleeping after that fetch.
C4_MissingRepositoryFailsFast ==
    \A r \in response : \A c \in IntegrationEntries(r) :
        RepositoryAbsent(c)
            => /\ pc = "done"
               /\ outcome = "ValueError"
               /\ sleeps = fetches - 1
               /\ result = {}

\* Scenario B: another repository is PAUSED, the requested one is not listed
C4_Witness ==
    /\ outcome = "ValueError"
    /\ fetches = 1
    /\ sleeps = 0
    /\ \E r \in response : \E c \in IntegrationEntries(r) :
        /\ RepositoryAbsent(c)
        /\ \E k \in DOMAIN c.items : c.items[k].hasStatus /\ c.items[k].status = "PAUSED"

\* C5: when the response holds no configuration entry of the requested
\* integration (or no configuration list at all), the wait has raised
\* ValueError in that cycle, without sleeping after that fetch.
C5_MissingIntegrationFailsFast ==
    \A r \in response :
        (~r.hasConfiguration
            \/ \A i \in DOMAIN r.configuration :
                    r.configuration[i].integrationId # integration_id)
            => /\ pc = "done"
               /\ outcome = "ValueError"
               /\ sleeps = fetches - 1
               /\ result = {}

\* an entry of another integration only, holding the repository PAUSED
C5_Witness ==
    /\ outcome = "ValueError"
    /\ \E r \in response :
        /\ r.hasConfiguration
        /\ r.configuration # <<>>
        /\ IntegrationEntries(r) = {}

C5_WitnessNoList ==
    /\ outcome = "ValueError"
    /\ \E r \in response : ~r.hasConfiguration

\* C6: every fetch whose response shows the repository's item with another
\* status is followed by one sleep, and the fetch whose response shows it
\* PAUSED ends the wait: the wait has returned the item of that response
\* after k fetch calls and k - 1 sleeps.
C6_ReturnsItemOfKthFetch ==
    \A r \in response : \A c \in IntegrationEntries(r) : \A it \in RepositoryItems(c) :
        /\ (it.hasStatus /\ it.status = "PAUSED")
            => /\ pc = "done"
               /\ outcome = "returned"
               /\ result = {it}
               /\ sleeps = fetches - 1
        /\ (it.hasStatus /\ it.status # "PAUSED")
            => /\ outcome \in {"running", "TimeoutError"}
               /\ result = {}
               /\ sleeps = fetches

\* Scenario A: PAUSED on the third fetch
C6_Witness ==
    /\ outcome = "returned"
    /\ fetches = 3
    /\ sleeps = 2
    /\ \E r \in response : \E c \in IntegrationEntries(r) : RepositoryItems(c) = result

\* C7 as stated: with interval >= timeout, a wait that fails on the deadline
\* check has made exactly one fetch.
C7_OneFetchWhenIntervalCoversTimeout ==
    (interval_ms >= timeout_ms /\ outcome = "TimeoutError") => fetches = 1

\* C7 as amended: with interval >= timeout the wait never makes a second
\* fetch, and when it fails on the deadline check it has made exactly one
\* fetch if timeout > 0 and none if timeout <= 0.
C7_OneFetchWhenTimeoutPositive ==
    interval_ms >= timeout_ms
        => /\ fetches <= 1
           /\ outcome = "TimeoutError"
                => fetches = (IF timeout_ms > 0 THEN 1 ELSE 0)

C7_Witness ==
    /\ interval_ms >= timeout_ms
    /\ timeout_ms > 0
    /\ outcome = "TimeoutError"
    /\ fetches = 1
    /\ sleeps = 1

\* C8 as stated: whatever target status t the caller has in mind, the wait
\* has returned exactly when the status of the repository's item in the
\* response equals t.
C8_SucceedsOnCallersTargetStatus ==
    \A t \in Statuses :
        \A r \in response : \A c \in IntegrationEntries(r) : \A it \in RepositoryItems(c) :
            it.hasStatus => ((outcome = "returned") <=> (it.status = t))

\* C8 as amended: the target status is the fixed value PAUSED; the call takes
\* no target status.  The wait has returned exactly when the status of the
\* repository's item in the response equals "PAUSED".
C8_SucceedsOnPausedOnly ==
    /\ \A r \in response : \A c \in IntegrationEntries(r) : \A it \in RepositoryItems(c) :
            it.hasStatus => ((outcome = "returned") <=> (it.status = "PAUSED"))
    /\ outcome = "returned"
        => \E r \in response : \E c \in IntegrationEntries(r) : \E it \in RepositoryItems(c) :
                it.hasStatus /\ it.status = "PAUSED"

\* the repository's item carries a status other than PAUSED and the wait
\* goes on
C8_Witness ==
    /\ pc = "sleep"
    /\ outcome = "running"
    /\ \E r \in response : \E c \in IntegrationEntries(r) : \E it \in RepositoryItems(c) :
            it.hasStatus /\ it.status \in Statuses \ {"PAUSED"}

\* C9: once a fetch call has raised, the wait is over with that error: it
\* is the only failed fetch, no sleep followed it, nothing is returned, and
\* the outcome is neither ValueError nor TimeoutError.
C9_FetchErrorPropagates ==
    fetch_errors > 0
        => /\ pc = "done"
           /\ outcome = "TransportError"
           /\ fetch_errors = 1
           /\ sleeps = fetches - 1
           /\ result = {}

\* the fetch of a later cycle raises
C9_Witness ==
    /\ fetch_errors = 1
    /\ outcome = "TransportError"
    /\ fetches = 2
    /\ sleeps = 1

\* C10: whatever the wait returns is an item of the requested integration's
\* entry in the response just fetched, named repository_name and with status
\* PAUSED; and a value is returned only with outcome "returned".
C10_ReturnsOnlyTheMatchingItem ==
    (outcome = "returned" \/ result # {})
        => /\ outcome = "returned"
           /\ \E r \in response : \E c \in IntegrationEntries(r) :
                /\ c.itemsKind = "list"
                /\ \E m \in DOMAIN c.items :
                    /\ result = {c.items[m]}
                    /\ c.items[m].isRecord
                    /\ c.items[m].name = repository_name
                    /\ c.items[m].hasStatus
                    /\ c.items[m].status = "PAUSED"

\* the item is returned from a list that also holds another repository
C10_Witness ==
    /\ outcome = "returned"
    /\ \E it \in result : it.name = repository_name /\ it.status = "PAUSED"
    /\ \E r \in response : \E c \in IntegrationEntries(r) :
            \E k \in DOMAIN c.items : c.items[k].isRecord /\ c.items[k].name # repository_name

\* C11 as stated: a finished wait none of whose fetch calls raised has ended
\* with the matched item, with ValueError or with TimeoutError, whatever the
\* shape of the responses.
C11_OnlyTypedOutcomes ==
    (pc = "done" /\ fetch_errors = 0)
        => outcome \in {"returned", "ValueError", "TimeoutError"}

\* C12: the wait ends at most once and nothing happens after its end: the
\* wait is over exactly when it has an outcome, and every step starts in a
\* state where the wait is running.
C12_TerminalStatesAbsorb ==
    /\ [](pc = "done" <=> outcome # "running")
    /\ [][pc # "done" /\ outcome = "running"]_vars

C12_Witness ==
    /\ pc = "done"
    /\ outcome = "TimeoutError"
    /\ fetches = 2
    /\ sleeps = 2

\* C13: TimeoutError is raised only when the elapsed time has reached the
\* timeout, and while the response shows the repository's item with a status
\* other than PAUSED and the deadline has not passed, the wait is running.
C13_TimeoutOnlyAfterDeadline ==
    /\ outcome = "TimeoutError" => elapsed >= timeout_ms
    /\ \A r \in response : \A c \in IntegrationEntries(r) : \A it \in RepositoryItems(c) :
            (it.hasStatus /\ it.status # "PAUSED" /\ elapsed < timeout_ms)
                => outcome = "running"

\* a timeout after several mismatching responses, past the deadline
C13_Witness ==
    /\ outcome = "TimeoutError"
    /\ fetches >= 2
    /\ elapsed > timeout_ms
    /\ timeout_ms > 0

\* C14: when the first item named repository_name has a status other than
\* PAUSED and a later item of that name is PAUSED, the wait has not returned:
\* it sleeps as for any mismatch.
C14_FirstDuplicateDecides ==
    \A r \in response : \A c \in IntegrationEntries(r) : \A it \in RepositoryItems(c) :
        (/\ it.hasStatus
         /\ it.status # "PAUSED"
         /\ \E n \in DOMAIN c.items :
                /\ c.items[n].isRecord
                /\ c.items[n].name = repository_name
                /\ c.items[n].hasStatus
                /\ c.items[n].status = "PAUSED")
            => /\ outcome \in {"running", "TimeoutError"}
               /\ result = {}
               /\ sleeps = fetches

C14_Witness ==
    /\ pc = "sleep"
    /\ \E r \in response : \E c \in IntegrationEntries(r) :
        /\ Len(c.items) = 2
        /\ c.items[1] = Item(repository_name, "DISCOVERED")
        /\ c.items[2] = Item(repository_name, "PAUSED")

\* C15: fetches are serialized and separated by one sleep each.  A fetch is
\* in flight only at pc = "fetch", where all earlier fetches have been
\* followed by exactly one sleep; a fetch starts only at the loop test, at
\* the instant the test is made; and the loop test is reached again only by
\* a sleep that lasted at least interval_ms.
C15_FetchesSerialized ==
    /\ [](LET completed ==
                sleeps + (IF pc = "done" /\ outcome # "TimeoutError" THEN 1 ELSE 0)
          IN  /\ fetches - completed \in {0, 1}
              /\ (fetches - completed = 1) <=> (pc = "fetch")
              /\ (pc = "fetch") => (sleeps = fetches - 1))
    /\ [][(fetches' # fetches)
              => (/\ pc = "loop"
                  /\ pc' = "fetch"
                  /\ fetches' = fetches + 1
                  /\ elapsed' = elapsed)]_vars
    /\ [][(pc' = "loop")
              => (/\ pc = "sleep"
                  /\ sleeps' = sleeps
                  /\ fetches' = fetches
                  /\ elapsed' >= elapsed + interval_ms)]_vars
    /\ [][(sleeps' # sleeps)
              => (/\ pc = "fetch"
                  /\ pc' = "sleep"
                  /\ sleeps' = sleeps + 1)]_vars

\* the third fetch is in flight
C15_Witness ==
    /\ pc = "fetch"
    /\ fetches = 3
    /\ sleeps = 2

\* C18: the wait is read-only.  Every call made on the collaborator is the
\* fetch get_all_agent_configuration with exactly the workspace_id and the
\* integration_id the caller passed, and one such call has been made as soon
\* as a fetch was issued; the arguments of the call never change; and the
\* bound snapshot changes only when a fetch is issued or returns, never
\* while it is evaluated or slept on.
C18_WaitIsReadOnly ==
    /\ [](/\ \A c \in calls :
               /\ c.method = "get_all_agent_configuration"
               /\ c.workspace_id = workspace_id
               /\ c.integration_id = integration_id
          /\ (fetches > 0) <=> (calls # {}))
    /\ [][UNCHANGED <<workspace_id, integration_id, repository_name, timeout_ms,
                      interval_ms>>]_vars
    /\ [][(response' # response) => (pc = "fetch" \/ pc' = "fetch")]_vars
    /\ [][(calls' # calls) => (pc = "loop" /\ pc' = "fetch")]_vars

C18_Witness ==
    /\ pc = "done"
    /\ outcome = "returned"
    /\ fetches = 2
    /\ Cardinality(calls) = 1
    /\ workspace_id = 25252

\* C19: the TimeoutError reports the repository name, the expected status
\* 'PAUSED' and the timeout the caller passed, for every timeout value: the
\* seconds it prints stand for timeout_ms milliseconds, also when timeout_ms
\* is not a whole number of seconds.
C19_MessageReportsTimeoutPassed ==
    \A m \in message :
        /\ m.repository_name = repository_name
        /\ m.status = "PAUSED"
        /\ m.seconds * 1000 = timeout_ms

\* C20: get, post, put and delete raise RuntimeError and dispatch no request
\* whenever the instance is not initialized (the flag is off or there is no
\* context), whichever of the four is called; and the instance is not
\* initialized before the first init, after a cleanup_resources that
\* returned, and after an init that failed with RuntimeError, until a later
\* init succeeds.
C20_UninitializedRequestRaises ==
    /\ [][(requests' # requests /\ (~initialized \/ context = None))
            => (/\ dispatched' = dispatched
                /\ \A q \in last_request' : q.outcome = "RuntimeError"
                /\ last_request' # {})]_<<vars, apiVars, pairVars>>
    /\ []((started = 0 \/ api_last.outcome = "RuntimeError"
            \/ api_last = [call |-> "cleanup_resources", outcome |-> "returned"])
           => (~initialized /\ context = None))
    /\ [](\A q \in last_request :
            /\ (q.after.call = "none" \/ q.after.outcome = "RuntimeError"
                 \/ q.after = [call |-> "cleanup_resources", outcome |-> "returned"])
                    => q.outcome = "RuntimeError"
            /\ q.outcome = "RuntimeError" => q.context = None)

\* a put refused after an init that failed, with an earlier request dispatched
C20_Witness ==
    /\ \E q \in last_request :
          /\ q.method = "put"
          /\ q.outcome = "RuntimeError"
          /\ q.after = [call |-> "init", outcome |-> "RuntimeError"]
    /\ dispatched = 1
    /\ requests = 2

\* a request refused for want of a context while the flag is still on
C20_WitnessNoContext ==
    /\ initialized
    /\ context = None
    /\ \E q \in last_request : q.outcome = "RuntimeError"
    /\ requests = 1

\* The wait run alone against the script, from the loop test with el ms
\* elapsed and k fetches made: how it ends and after how many fetches
\* ("running" where the script has no entry yet for the next fetch).
RECURSIVE AloneFrom(_, _)
AloneFrom(el, k) ==
    IF el >= timeout_ms
      THEN [outcome |-> "TimeoutError", result |-> {}, fetches |-> k]
      ELSE IF k >= Len(script)
             THEN [outcome |-> "running", result |-> {}, fetches |-> k]
             ELSE LET s == script[k + 1]
                  IN  IF s.raises
                        THEN [outcome |-> "TransportError", result |-> {},
                              fetches |-> k + 1]
                        ELSE IF \E c \in IntegrationEntries(s.r) :
                                  \E it \in RepositoryItems(c) : it.status = "PAUSED"
                               THEN [outcome |-> "returned",
                                     result |-> {Item(repository_name, "PAUSED")},
                                     fetches |-> k + 1]
                               ELSE IF \E c \in IntegrationEntries(s.r) :
                                         RepositoryItems(c) # {}
                                      THEN AloneFrom(el + s.d + interval_ms + s.j, k + 1)
                                      ELSE [outcome |-> "ValueError", result |-> {},
                                            fetches |-> k + 1]

AloneRun == AloneFrom(0, 0)

\* C16: concurrent calls on one instance share no mutable state.  Under
\* every interleaving of two calls, a call that has ended has the outcome,
\* the returned item and the fetch count of the same call run alone against
\* the same script; its start_time is the time it was called at and never
\* changes afterwards; and a step of one call changes no local of the other.
C16_ConcurrentCallsIndependent ==
    /\ [](\A i \in Invocations :
            /\ wait_pc[i] = "done" =>
                  /\ wait_outcome[i] = AloneRun.outcome
                  /\ wait_result[i] = AloneRun.result
                  /\ wait_fetches[i] = AloneRun.fetches
            /\ wait_pc[i] # "start" => start_time[i] <= now)
    /\ [][\A i \in Invocations :
            IF wait_pc[i] = "start"
              THEN wait_pc'[i] # "start" => start_time'[i] = now'
              ELSE start_time'[i] = start_time[i]]_<<vars, apiVars, pairVars>>
    /\ [][\A i \in Invocations :
            (wait_pc'[i] # wait_pc[i]) =>
                \A o \in Invocations \ {i} :
                    /\ start_time'[o] = start_time[o]
                    /\ wait_pc'[o] = wait_pc[o]
                    /\ due'[o] = due[o]
                    /\ wait_fetches'[o] = wait_fetches[o]
                    /\ wait_outcome'[o] = wait_outcome[o]
                    /\ wait_result'[o] = wait_result[o]]_<<vars, apiVars, pairVars>>

\* both calls ended on the deadline after two fetches each, the second
\* called 1 ms after the first
C16_Witness ==
    /\ \A i \in Invocations :
          /\ wait_pc[i] = "done"
          /\ wait_outcome[i] = "TimeoutError"
          /\ wait_fetches[i] = 2
    /\ start_time[2] = 1

\* C17: two calls with identical arguments against a collaborator that
\* gives both the same sequence of snapshots with the same timing end the
\* same way, with the same returned item or the same kind of error, after
\* the same number of fetches, whenever each of them is called.
C17_SameScriptSameOutcome ==
    (\A i \in Invocations : wait_pc[i] = "done") =>
        /\ wait_outcome[1] = wait_outcome[2]
        /\ wait_result[1] = wait_result[2]
        /\ wait_fetches[1] = wait_fetches[2]

\* both calls returned the PAUSED item of the second fetch, the second
\* call made 2 ms after the first
C17_Witness ==
    /\ \A i \in Invocations :
          /\ wait_pc[i] = "done"
          /\ wait_outcome[i] = "returned"
          /\ wait_result[i] = {Item(repository_name, "PAUSED")}
          /\ wait_fetches[i] = 2
    /\ start_time[2] = 2

\* C21: parse_response raises ValueError when the response has an error
\* status code (status >= 400), and returns no value in that case.
C21_ErrorStatusRaisesValueError ==
    \A o \in parsed :
        (~api_response.isNone /\ api_response.hasStatus /\ api_response.status >= 400)
            => (o.kind = "raised" /\ o.exc = "ValueError")

\* C22: an init that fails while starting Playwright or creating the
\* request context releases every resource acquired so far and raises
\* RuntimeError, leaving context = None, playwright = None and
\* _initialized = False.
C22_FailedInitReleasesAndRaises ==
    (api_pc = "idle" /\ api_last.call = "init" /\ api_last.outcome # "returned")
        => /\ api_last.outcome = "RuntimeError"
           /\ context = None
           /\ playwright = None
           /\ ~initialized
           /\ processes = {}
           /\ contexts = {}

\* r has a structural defect: no entry of the requested integration, an
\* entry whose items are absent or not a list, or an items list of records
\* none of which is named repository_name
StructuralDefect(r) ==
    \/ IntegrationEntries(r) = {}
    \/ \E c \in IntegrationEntries(r) : c.itemsKind # "list" \/ RepositoryAbsent(c)

\* C23: each cycle evaluates only the snapshot fetched in that cycle.  When
\* the response of fetch k > 1 has a structural defect, the earlier cycles
\* having each ended in a sleep, the wait has raised ValueError in cycle k,
\* returning nothing and without sleeping on it; and from there on no
\* further fetch or sleep is made, whatever time is left to the deadline.
C23_DefectOnLaterCycleEndsWait ==
    /\ [](\A r \in response :
            (fetches >= 2 /\ StructuralDefect(r))
                => /\ pc = "done"
                   /\ outcome = "ValueError"
                   /\ result = {}
                   /\ sleeps = fetches - 1)
    /\ [][outcome = "ValueError" => (fetches' = fetches /\ sleeps' = sleeps)]_vars

\* the integration's entry gone on the third fetch, before the deadline
C23_Witness ==
    /\ outcome = "ValueError"
    /\ fetches = 3
    /\ sleeps = 2
    /\ elapsed < timeout_ms
    /\ \E r \in response : IntegrationEntries(r) = {}

\* time left to the deadline, in ms
Remaining == IF timeout_ms > elapsed THEN timeout_ms - elapsed ELSE 0

\* an upper bound on the steps the wait can still take: one cycle is a
\* fetch, a sleep and a loop test, and a sleep takes at least 1 ms
StepsLeft ==
    LET after == IF Remaining > 1 THEN Remaining - 1 ELSE 0
    IN  CASE pc = "done" -> 0
          [] pc = "loop" -> 3 * Remaining + 1
          [] pc = "fetch" -> 3 * after + 3
          [] pc = "sleep" -> 3 * after + 2

\* C24: every wait with a finite timeout and an interval > 0 eventually
\* reaches a terminal state (the item returned, ValueError, TimeoutError or
\* the error of a failed fetch), given that every fetch returns or fails
\* and the clock advances: a wait that has not ended can always take a
\* step, every step lowers a bound on the steps left that the timeout
\* fixes, and on a running event loop the wait ends.
C24_EventuallyTerminal ==
    /\ [](interval_ms > 0 /\ (pc # "done" => ENABLED Next))
    /\ [][StepsLeft' < StepsLeft]_vars
    /\ <>(pc = "done" /\ outcome # "running")

\* a wait that ended on the deadline after three full cycles
C24_Witness ==
    /\ pc = "done"
    /\ outcome = "TimeoutError"
    /\ fetches = 3
    /\ sleeps = 3
    /\ interval_ms = 1

\* C25: init is idempotent on an initialized instance.  An init or
\* start_session call made while _initialized is set (after a successful
\* init, no cleanup having run since) returns at once: it starts no
\* Playwright process, creates no context, and leaves playwright, context,
\* the live processes and contexts and the flag as they were.
C25_InitIdempotent ==
    [][(init_calls' # init_calls /\ initialized)
        => /\ started' = started
           /\ playwright' = playwright
           /\ context' = context
           /\ processes' = processes
           /\ contexts' = contexts
           /\ initialized'
           /\ api_pc' = "idle"
           /\ api_last' = [call |-> "init", outcome |-> "returned"]
     ]_<<vars, apiVars, pairVars>>

\* three init calls, the first successful: still the first process and context
C25_Witness ==
    /\ init_calls = 3
    /\ started = 1
    /\ initialized
    /\ playwright = 1
    /\ context = 1
    /\ processes = {1}
    /\ contexts = {1}
    /\ api_last = [call |-> "init", outcome |-> "returned"]
    /\ dispatched = 1

\* C26: every fetch is started at an instant at which the time elapsed
\* since the call's start is strictly less than the timeout: no fetch is
\* started at or after the deadline, and a fetch in flight was started
\* before it.
C26_FetchStartsBeforeDeadline ==
    /\ [][(fetches' # fetches) => (elapsed < timeout_ms /\ elapsed' = elapsed)]_vars
    /\ []((pc = "fetch") => (elapsed < timeout_ms))

\* the third fetch started 1 ms before the deadline
C26_Witness ==
    /\ pc = "fetch"
    /\ fetches = 3
    /\ elapsed = timeout_ms - 1

\* C27: the deadline is tested only before a fetch, never after it.  A
\* fetch started before the deadline whose response shows the repository
\* PAUSED ends the wait with that item however late it completes, so a wait
\* can return with more time elapsed than the timeout; and TimeoutError is
\* raised from the loop test only.
C27_DeadlineTestedBeforeFetchOnly ==
    /\ [](\A r \in response : \A c \in IntegrationEntries(r) : \A it \in RepositoryItems(c) :
            (it.hasStatus /\ it.status = "PAUSED" /\ elapsed >= timeout_ms)
                => (pc = "done" /\ outcome = "returned" /\ result = {it}))
    /\ [][(outcome' = "TimeoutError" /\ outcome # "TimeoutError") => pc = "loop"]_vars

\* the item returned 1 ms after the deadline, by the second fetch
C27_Witness ==
    /\ pc = "done"
    /\ outcome = "returned"
    /\ fetches = 2
    /\ timeout_ms > 0
    /\ elapsed = timeout_ms + 1

\* C28: with a timeout of zero or less the wait makes no fetch at all,
\* whatever the remote state is: no call reaches the collaborator, no
\* response is ever bound, and the one step the wait takes raises
\* TimeoutError.
C28_NoFetchWhenTimeoutNotPositive ==
    /\ []((timeout_ms <= 0)
            => /\ fetches = 0
               /\ sleeps = 0
               /\ calls = {}
               /\ response = {}
               /\ result = {}
               /\ pc \in {"loop", "done"}
               /\ (pc = "done") <=> (outcome = "TimeoutError"))
    /\ [][(timeout_ms <= 0) => (pc' = "done" /\ outcome' = "TimeoutError")]_vars

\* a wait with timeout 0 that has failed without a fetch
C28_Witness ==
    /\ timeout_ms = 0
    /\ pc = "done"
    /\ outcome = "TimeoutError"
    /\ fetches = 0
    /\ message # {}

====
